---- MODULE Spec2Model ----
(***************************************************************************)
(* A model of Dune::AxisAlignedCubeGeometry<ctype, dim, coorddim>          *)
(* (dune/geometry/axisalignedcubegeometry.hh).                             *)
(*                                                                         *)
(* The template parameters dim and coorddim and the build mode (NDEBUG or  *)
(* not) are fixed in the initial state.  Geometry objects are records of   *)
(* the five data members.  Coordinates are exact extended rationals        *)
(* <<n, d>> (d = 0 for the non-finite values a floating-point division by  *)
(* zero yields), so that division is modelled by what it computes.         *)
(***************************************************************************)
EXTENDS Integers, Sequences, FiniteSets, TLC

VARIABLES dim, coorddim, ndebug, geo, ret, halted, thr

vars == <<dim, coorddim, ndebug, geo, ret, halted, thr>>

(***************************************************************************)
(* Bounds of the model.                                                    *)
(***************************************************************************)
\* corner coordinates handed to the constructors are integers 0..MaxCoord
MaxCoord == 2
\* in the two-object specification the lower corner is the origin and the
\* coordinates of the upper corner are integers -1..LifeMaxCoord
LifeMaxCoord == 1
\* number of threads querying one shared instance
NumThreads == 2

\* The instantiations <<dim, coorddim>> of the class template that are checked:
\* cubes of every dimension in the worlds of dimension 1, 2 and 3 that grids use.
Instantiations ==
  {<<1, 1>>, <<1, 2>>, <<2, 2>>, <<1, 3>>, <<2, 3>>, <<3, 3>>}

(***************************************************************************)
(* ctype: exact extended rationals.  <<n, d>> with d > 0 and gcd(n,d) = 1  *)
(* is the number n/d; <<1,0>>, <<-1,0>> are +inf, -inf; <<0,0>> is NaN.    *)
(***************************************************************************)
Abs(n) == IF n < 0 THEN -n ELSE n

Sgn(n) == IF n < 0 THEN -1 ELSE IF n > 0 THEN 1 ELSE 0

RECURSIVE GCD(_, _)
GCD(a, b) == IF b = 0 THEN a ELSE GCD(b, a % b)

Norm(n, d) ==
  IF d = 0 THEN <<Sgn(n), 0>>
  ELSE LET g == GCD(Abs(n), Abs(d))
           s == IF d < 0 THEN -1 ELSE 1
       IN  <<s * (n \div g), s * (d \div g)>>

NaN == <<0, 0>>

Inf == <<1, 0>>

Zero == <<0, 1>>

One == <<1, 1>>

Half == <<1, 2>>

FromInt(n) == <<n, 1>>

IsNaN(x) == x = NaN

IsFinite(x) == x[2] # 0

Neg(x) == <<-x[1], x[2]>>

Add(x, y) ==
  IF x[2] = 0 /\ y[2] = 0
  THEN (IF x = y THEN x ELSE NaN)
  ELSE Norm(x[1] * y[2] + y[1] * x[2], x[2] * y[2])

Sub(x, y) == Add(x, Neg(y))

Mul(x, y) == Norm(x[1] * y[1], x[2] * y[2])

\* 1/y: 1/0 = +inf, 1/(+-inf) = 0, 1/NaN = NaN
Recip(y) ==
  IF y[1] = 0 THEN (IF y[2] = 0 THEN NaN ELSE Inf)
  ELSE IF y[2] = 0 THEN Zero
  ELSE Norm(y[2], y[1])

Div(x, y) == Mul(x, Recip(y))

\* operator== of ctype: NaN compares unequal to everything
Eq(x, y) == x = y /\ ~IsNaN(x)

\* x <= y for finite x, y
Leq(x, y) == x[1] * y[2] <= y[1] * x[2]

RECURSIVE Pow2(_)
Pow2(n) == IF n = 0 THEN 1 ELSE 2 * Pow2(n - 1)

\* (k & (1 << j)) != 0
Bit(k, j) == (k \div Pow2(j)) % 2 = 1

(***************************************************************************)
(* FieldVector / FieldMatrix / bitset values.                              *)
(***************************************************************************)
World == 0 .. (coorddim - 1)

Loc == 0 .. (dim - 1)

\* FieldVector == FieldVector, componentwise with ctype's ==
VecEq(v, w) == DOMAIN v = DOMAIN w /\ \A i \in DOMAIN v : Eq(v[i], w[i])

\* std::bitset<coorddim>::count()
Count(axes) == Cardinality(axes)

\* the matrix types constructed from the scalar 0
ZeroJT == IF dim = coorddim THEN [i \in Loc |-> Zero]
          ELSE [r \in Loc |-> [c \in World |-> Zero]]

ZeroJIT == IF dim = coorddim THEN [i \in Loc |-> Zero]
           ELSE [r \in World |-> [c \in Loc |-> Zero]]

NoGeo == [live |-> FALSE]

(***************************************************************************)
(* Constructors (the member initialisers and the constructor body).        *)
(***************************************************************************)
\* AxisAlignedCubeGeometry(lower, upper): axes_((1<<coorddim)-1)
Ctor2(lower, upper) ==
  [live |-> TRUE, lower_ |-> lower, upper_ |-> upper, axes_ |-> World,
   jacobianTransposed_ |-> ZeroJT, jacobianInverseTransposed_ |-> ZeroJIT]

\* a constructor body that forgets the loop over the inactive axes
CollapseMissing(lower, upper, axes) == upper

\* for (i) if (not axes_[i]) upper_[i] = lower_[i];
Collapse(lower, upper, axes) ==
  [i \in World |-> IF i \in axes THEN upper[i] ELSE lower[i]]

\* AxisAlignedCubeGeometry(lower, upper, axes), once the assertion has passed
Ctor3(lower, upper, axes) ==
  [live |-> TRUE, lower_ |-> lower, upper_ |-> Collapse(lower, upper, axes),
   axes_ |-> axes,
   jacobianTransposed_ |-> ZeroJT, jacobianInverseTransposed_ |-> ZeroJIT]

\* an assertion that only rejects masks with too many bits
AssertHoldsAtMost(axes) == Count(axes) <= dim

\* assert(axes.count()==dim)
AssertHolds(axes) == Count(axes) = dim

(***************************************************************************)
(* The per-axis expressions of the queries.                                *)
(***************************************************************************)
\* a width that forgets the lower corner
WidthUpperOnly(g, i) == g.upper_[i]

\* upper_[i] - lower_[i]
Width(g, i) == Sub(g.upper_[i], g.lower_[i])

\* 1.0 / (upper_[i] - lower_[i])
InvWidth(g, i) == Div(One, Width(g, i))

\* lower_[i] + local*(upper_[i] - lower_[i])
GlobalCoord(g, t, i) == Add(g.lower_[i], Mul(t, Width(g, i)))

\* an inverse map that forgets the offset
LocalCoordNoOffset(g, x, i) == Div(x, Width(g, i))

\* (global[i] - lower_[i]) / (upper_[i] - lower_[i])
LocalCoord(g, x, i) == Div(Sub(x, g.lower_[i]), Width(g, i))

\* local[lc]; an index lc >= dim reads the memory behind the vector (oob)
ReadLocal(loc, oob, lc) == IF lc < dim THEN loc[lc] ELSE oob[lc]

(***************************************************************************)
(* global(local): result and, per world axis, the local index consumed     *)
(* (-1: none).                                                             *)
(***************************************************************************)
\* a slow path that indexes the local vector by the world index
LocalIndexWorld(i, lc) == i

\* the slow path reads local[lc++]
LocalIndex(i, lc) == lc

RECURSIVE globalSlow(_, _, _, _, _, _)
globalSlow(g, loc, oob, i, lc, acc) ==
  IF i >= coorddim THEN acc
  ELSE IF i \in g.axes_
       THEN globalSlow(g, loc, oob, i + 1, lc + 1,
              [result |-> [acc.result EXCEPT ![i] =
                             GlobalCoord(g, ReadLocal(loc, oob, LocalIndex(i, lc)), i)],
               reads |-> [acc.reads EXCEPT ![i] = LocalIndex(i, lc)]])
       ELSE globalSlow(g, loc, oob, i + 1, lc,
              [result |-> [acc.result EXCEPT ![i] = g.lower_[i]],
               reads |-> acc.reads])

global(g, loc, oob) ==
  IF dim = coorddim
  THEN [result |-> [i \in World |-> GlobalCoord(g, loc[i], i)],
        reads |-> [i \in World |-> i]]
  ELSE globalSlow(g, loc, oob, 0, 0,
         [result |-> [i \in World |-> NaN], reads |-> [i \in World |-> -1]])

(***************************************************************************)
(* local(global): result (init is the uninitialised content of result) and *)
(* whether a write went behind the vector (result[lc], lc >= dim).         *)
(***************************************************************************)
RECURSIVE localSlow(_, _, _, _, _)
localSlow(g, glob, i, lc, acc) ==
  IF i >= coorddim THEN acc
  ELSE IF i \in g.axes_
       THEN IF lc < dim
            THEN localSlow(g, glob, i + 1, lc + 1,
                   [acc EXCEPT !.result[lc] = LocalCoord(g, glob[i], i)])
            ELSE localSlow(g, glob, i + 1, lc + 1, [acc EXCEPT !.spill = TRUE])
       ELSE localSlow(g, glob, i + 1, lc, acc)

local(g, glob, init) ==
  IF dim = coorddim
  THEN [result |-> [i \in Loc |-> LocalCoord(g, glob[i], i)], spill |-> FALSE]
  ELSE localSlow(g, glob, 0, 0, [result |-> init, spill |-> FALSE])

(***************************************************************************)
(* corner(k)                                                               *)
(***************************************************************************)
\* a slow path that forgets to advance the bit mask
ShiftMaskStuck(mask) == mask

\* mask = (mask<<1)
ShiftMask(mask) == 2 * mask

\* (k & mask) != 0 for a one-bit mask
AndMask(k, mask) == (k \div mask) % 2 = 1

RECURSIVE cornerSlow(_, _, _, _, _)
cornerSlow(g, k, i, mask, result) ==
  IF i >= coorddim THEN result
  ELSE IF i \notin g.axes_
       THEN cornerSlow(g, k, i + 1, mask, [result EXCEPT ![i] = g.lower_[i]])
       ELSE cornerSlow(g, k, i + 1, ShiftMask(mask),
              [result EXCEPT ![i] = IF AndMask(k, mask) THEN g.upper_[i]
                                    ELSE g.lower_[i]])

corner(g, k) ==
  IF dim = coorddim
  THEN [i \in World |-> IF Bit(k, i) THEN g.upper_[i] ELSE g.lower_[i]]
  ELSE cornerSlow(g, k, 0, 1, [i \in World |-> NaN])

(***************************************************************************)
(* volume(), integrationElement(local), center(), corners(), type(),       *)
(* affine()                                                                *)
(***************************************************************************)
\* a volume that multiplies over every world axis
VolumeAxisAll(g, i) == TRUE

\* fast case: every i < dim; slow case: if (axes_[i])
VolumeAxis(g, i) == dim = coorddim \/ i \in g.axes_

RECURSIVE volumeLoop(_, _, _, _)
volumeLoop(g, i, n, vol) ==
  IF i >= n THEN vol
  ELSE volumeLoop(g, i + 1, n,
         IF VolumeAxis(g, i) THEN Mul(vol, Width(g, i)) ELSE vol)

volume(g) == volumeLoop(g, 0, IF dim = coorddim THEN dim ELSE coorddim, One)

integrationElement(g, loc) == volume(g)

center(g) == [i \in World |-> Mul(Half, Add(g.lower_[i], g.upper_[i]))]

corners(g) == Pow2(dim)

type(g) == <<"cube", dim>>

affine(g) == TRUE

(***************************************************************************)
(* jacobianTransposed(local), jacobianInverseTransposed(local).            *)
(*                                                                         *)
(* Both write the mutable scratch member and return a reference to it.     *)
(* With more than dim bits set in axes_ the slow paths index a row (or a   *)
(* column) >= dim.  ub names what the build makes of such a write: "flat"  *)
(* (plain row-major address arithmetic: the store lands at that offset,    *)
(* for jacobianTransposed_ in the member declared right behind it,         *)
(* jacobianInverseTransposed_; a store behind the object is outside the    *)
(* model), "dropped" (the store is optimised away) or "trap".              *)
(***************************************************************************)
UBOutcomes == {"flat", "dropped", "trap"}

\* the store at flat offset off of the coorddim x dim array jacobianInverseTransposed_
PokeJIT(m, off, val) ==
  IF off < coorddim * dim THEN [m EXCEPT ![off \div dim][off % dim] = val] ELSE m

RECURSIVE jtSlow(_, _, _, _, _)
jtSlow(g, ub, i, lc, acc) ==
  IF i >= coorddim THEN acc
  ELSE IF i \in g.axes_
       THEN IF lc < dim
            THEN jtSlow(g, ub, i + 1, lc + 1, [acc EXCEPT !.jt[lc][i] = Width(g, i)])
            ELSE jtSlow(g, ub, i + 1, lc + 1,
                   [acc EXCEPT !.spill = TRUE,
                               !.jit = IF ub = "flat"
                                       THEN PokeJIT(@, (lc - dim) * coorddim + i, Width(g, i))
                                       ELSE @])
       ELSE jtSlow(g, ub, i + 1, lc, acc)

jacobianTransposed(g, ub) ==
  IF dim = coorddim
  THEN [jt |-> [i \in Loc |-> Width(g, i)],
        jit |-> g.jacobianInverseTransposed_, spill |-> FALSE]
  ELSE jtSlow(g, ub, 0, 0,
         [jt |-> g.jacobianTransposed_, jit |-> g.jacobianInverseTransposed_,
          spill |-> FALSE])

RECURSIVE jitSlow(_, _, _, _, _)
jitSlow(g, ub, i, lc, acc) ==
  IF i >= coorddim THEN acc
  ELSE IF i \in g.axes_
       THEN IF lc < dim
            THEN jitSlow(g, ub, i + 1, lc + 1, [acc EXCEPT !.jit[i][lc] = InvWidth(g, i)])
            ELSE jitSlow(g, ub, i + 1, lc + 1,
                   [acc EXCEPT !.spill = TRUE,
                               !.jit = IF ub = "flat"
                                       THEN PokeJIT(@, i * dim + lc, InvWidth(g, i))
                                       ELSE @])
       ELSE jitSlow(g, ub, i + 1, lc, acc)

jacobianInverseTransposed(g, ub) ==
  IF dim = coorddim
  THEN [jt |-> g.jacobianTransposed_,
        jit |-> [i \in Loc |-> InvWidth(g, i)], spill |-> FALSE]
  ELSE jitSlow(g, ub, 0, 0,
         [jt |-> g.jacobianTransposed_, jit |-> g.jacobianInverseTransposed_,
          spill |-> FALSE])

(***************************************************************************)
(* operator=: the five member assignments.  The function has no return     *)
(* statement, so flowing off its end is undefined; MissingReturn names     *)
(* what a build makes of it: "returns" (the members are copied, the        *)
(* returned reference is indeterminate), "trap" (the members are copied,   *)
(* then the program is stopped) and "elided" (the end being unreachable,   *)
(* the stores before it are removed too).                                  *)
(***************************************************************************)
MissingReturn == {"returns", "trap", "elided"}

\* an assignment that leaves the axis mask behind
AssignMembersNoAxes(self, other) ==
  [self EXCEPT !.lower_ = other.lower_, !.upper_ = other.upper_,
               !.jacobianTransposed_ = other.jacobianTransposed_,
               !.jacobianInverseTransposed_ = other.jacobianInverseTransposed_]

AssignMembers(self, other) ==
  [self EXCEPT !.lower_ = other.lower_, !.upper_ = other.upper_,
               !.axes_ = other.axes_,
               !.jacobianTransposed_ = other.jacobianTransposed_,
               !.jacobianInverseTransposed_ = other.jacobianInverseTransposed_]

(***************************************************************************)
(* The program state: two geometry objects of one instantiation, the       *)
(* result of the last operation, and whether the program was stopped.      *)
(***************************************************************************)
Objs == {"a", "b"}

Threads == 1 .. NumThreads

Idle == [pc |-> "idle", op |-> "none", k |-> 0, i |-> 0, lc |-> 0, rd |-> {}, wr |-> {}]

AllIdle == \A t \in Threads : thr[t].pc = "idle"

\* values of corner coordinates, local coordinates and world coordinates
Coords == {FromInt(c) : c \in 0 .. MaxCoord}

Corners == [World -> Coords]

Masks == SUBSET World

\* the reference cube, and two points outside it
RefCube == [Loc -> {Zero, Half, One}]

LocalPoints == RefCube \cup {[i \in Loc |-> FromInt(-1)], [i \in Loc |-> FromInt(i + 2)]}

GlobalVals == Coords \cup {Half}

GlobalPoints == [World -> GlobalVals]

\* lower left and upper right corners: lower[i] <= upper[i] on every axis
Ordered(l, u) == \A i \in World : Leq(l[i], u[i])

\* q lies on the box of g
OnBox(g, q) ==
  \A i \in World : IF i \in g.axes_ \/ dim = coorddim
                    THEN Leq(g.lower_[i], q[i]) /\ Leq(q[i], g.upper_[i])
                    ELSE q[i] = g.lower_[i]

\* what an uninitialised or out-of-bounds read may yield
Garbage == {Zero, FromInt(7)}

Result(op, o, arg, val) == [op |-> op, obj |-> o, arg |-> arg, val |-> val]

InitWith(insts) ==
  /\ \E inst \in insts : dim = inst[1] /\ coorddim = inst[2]
  /\ ndebug \in BOOLEAN
  /\ geo = [o \in Objs |-> NoGeo]
  /\ ret = Result("none", "a", 0, 0)
  /\ halted = FALSE
  /\ thr = [t \in Threads |-> Idle]

Init == InitWith(Instantiations)

Frame == UNCHANGED <<dim, coorddim, ndebug, thr>>

\* a query that only reads the object
Pure(op, o, arg, val) ==
  /\ ret' = Result(op, o, arg, val)
  /\ UNCHANGED <<geo, halted>>
  /\ Frame

\* the program is stopped inside the call op (abort() of a failed assertion, a trap)
Stop(op, o, arg) ==
  /\ halted' = TRUE
  /\ ret' = Result("stopped", o, arg, op)
  /\ UNCHANGED geo
  /\ Frame

\* the caller is between two calls: the previous result has been taken
CallerReady == ~halted /\ AllIdle /\ ret.op = "none"

Ready(o) == CallerReady /\ geo[o].live

\* the caller takes the result of the call; the temporary is gone
Return ==
  /\ ~halted /\ ret.op # "none"
  /\ ret' = Result("none", "a", 0, 0)
  /\ UNCHANGED <<geo, halted>>
  /\ Frame

Construct2(o, lower, upper) ==
  /\ CallerReady /\ ~geo[o].live
  /\ geo' = [geo EXCEPT ![o] = Ctor2(lower, upper)]
  /\ ret' = Result("ctor2", o, <<lower, upper>>, 0)
  /\ UNCHANGED halted
  /\ Frame

Construct3(o, lower, upper, axes) ==
  /\ CallerReady /\ ~geo[o].live
  /\ IF ~ndebug /\ ~AssertHolds(axes)
     THEN Stop("ctor3", o, <<lower, upper, axes>>)
     ELSE /\ geo' = [geo EXCEPT ![o] = Ctor3(lower, upper, axes)]
          /\ ret' = Result("ctor3", o, <<lower, upper, axes>>, 0)
          /\ UNCHANGED halted
          /\ Frame

\* the implicitly defined copy constructor: memberwise copy
CopyConstruct(o, src) ==
  /\ CallerReady /\ ~geo[o].live /\ geo[src].live
  /\ geo' = [geo EXCEPT ![o] = geo[src]]
  /\ ret' = Result("copy", o, src, 0)
  /\ UNCHANGED halted
  /\ Frame

Assign(o, src, out) ==
  /\ Ready(o) /\ geo[src].live
  /\ geo' = IF out = "elided" THEN geo
            ELSE [geo EXCEPT ![o] = AssignMembers(geo[o], geo[src])]
  /\ halted' = (out = "trap")
  /\ ret' = Result("assign", o, src, out)
  /\ Frame

Global(o, p, oob) ==
  /\ Ready(o)
  /\ Pure("global", o, p, global(geo[o], p, oob))

Local(o, q, init, out) ==
  /\ Ready(o)
  /\ LET r == local(geo[o], q, init)
     IN  IF r.spill /\ out = "trap"
         THEN Stop("local", o, q)
         ELSE Pure("local", o, q, r.result)

Corner(o, k) ==
  /\ Ready(o)
  /\ Pure("corner", o, k, corner(geo[o], k))

Volume(o) ==
  /\ Ready(o)
  /\ Pure("volume", o, 0, volume(geo[o]))

IntegrationElement(o, p) ==
  /\ Ready(o)
  /\ Pure("integrationElement", o, p, integrationElement(geo[o], p))

Center(o) ==
  /\ Ready(o)
  /\ Pure("center", o, 0, center(geo[o]))

CornersTypeAffine(o) ==
  /\ Ready(o)
  /\ Pure("corners", o, 0, <<corners(geo[o]), type(geo[o]), affine(geo[o])>>)

JacobianTransposed(o, p, ub) ==
  /\ Ready(o)
  /\ LET r == jacobianTransposed(geo[o], ub)
     IN  IF r.spill /\ ub = "trap"
         THEN Stop("jacobianTransposed", o, p)
         ELSE /\ geo' = [geo EXCEPT ![o].jacobianTransposed_ = r.jt,
                                    ![o].jacobianInverseTransposed_ = r.jit]
              /\ ret' = Result("jacobianTransposed", o, p, r.jt)
              /\ UNCHANGED halted
              /\ Frame

JacobianInverseTransposed(o, p, ub) ==
  /\ Ready(o)
  /\ LET r == jacobianInverseTransposed(geo[o], ub)
     IN  IF r.spill /\ ub = "trap"
         THEN Stop("jacobianInverseTransposed", o, p)
         ELSE /\ geo' = [geo EXCEPT ![o].jacobianTransposed_ = r.jt,
                                    ![o].jacobianInverseTransposed_ = r.jit]
              /\ ret' = Result("jacobianInverseTransposed", o, p, r.jit)
              /\ UNCHANGED halted
              /\ Frame

\* the memory read by local[lc] for the indices lc >= dim the slow path reaches
OobReads(g) ==
  LET F == [dim .. (Count(g.axes_) - 1) -> Garbage]
  IN  {[i \in World |-> IF i \in DOMAIN f THEN f[i] ELSE NaN] : f \in F}

\* the uninitialised LocalCoordinate result; the entries below Count(axes_) are
\* overwritten by the slow path, every entry by the fast path
UninitLocal(g) ==
  LET F == [(IF dim = coorddim THEN dim ELSE Count(g.axes_)) .. (dim - 1) -> Garbage]
  IN  {[i \in Loc |-> IF i \in DOMAIN f THEN f[i] ELSE NaN] : f \in F}

(***************************************************************************)
(* SpecQuery: one object and every query that only reads it.               *)
(***************************************************************************)
NextQuery ==
  \/ /\ CallerReady /\ ~geo["a"].live
     /\ \E l \in Corners, u \in Corners : Ordered(l, u) /\ Construct2("a", l, u)
  \/ /\ CallerReady /\ ~geo["a"].live
     /\ \E l \in Corners, u \in Corners, m \in Masks :
          Ordered(l, u) /\ Construct3("a", l, u, m)
  \/ /\ Ready("a")
     /\ \E p \in LocalPoints, oob \in OobReads(geo["a"]) : Global("a", p, oob)
  \/ /\ Ready("a")
     /\ \E q \in GlobalPoints, init \in UninitLocal(geo["a"]), out \in {"returns", "trap"} :
          OnBox(geo["a"], q) /\ Local("a", q, init, out)
  \/ /\ Ready("a")
     /\ \E k \in 0 .. (Pow2(dim) - 1) : Corner("a", k)
  \/ Volume("a")
  \/ /\ Ready("a")
     /\ \E p \in LocalPoints : IntegrationElement("a", p)
  \/ Center("a")
  \/ CornersTypeAffine("a")
  \/ Return

SpecQuery == Init /\ [][NextQuery]_vars

\* the local points the Jacobians are asked at (the last one outside the cube)
JacPoints ==
  {[i \in Loc |-> Zero], [i \in Loc |-> Half], [i \in Loc |-> FromInt(i + 2)]}

(***************************************************************************)
(* SpecJacobian: one object and the two Jacobian queries.                  *)
(***************************************************************************)
NextJacobian ==
  \/ /\ CallerReady /\ ~geo["a"].live
     /\ \E l \in Corners, u \in Corners : Ordered(l, u) /\ Construct2("a", l, u)
  \/ /\ CallerReady /\ ~geo["a"].live
     /\ \E l \in Corners, u \in Corners, m \in Masks :
          Ordered(l, u) /\ Construct3("a", l, u, m)
  \/ /\ Ready("a")
     /\ \E p \in JacPoints, ub \in UBOutcomes : JacobianTransposed("a", p, ub)
  \/ /\ Ready("a")
     /\ \E p \in JacPoints, ub \in UBOutcomes : JacobianInverseTransposed("a", p, ub)
  \/ Return

SpecJacobian == Init /\ [][NextJacobian]_vars

(***************************************************************************)
(* Spec: two objects a and b of one instantiation; constructors, copies,   *)
(* whole-object assignment, the Jacobian queries and volume().  The lower   *)
(* corner is the origin, the upper corner any point, upper < lower         *)
(* included: the constructors accept whatever they are given.              *)
(***************************************************************************)
LifeInstantiations == {<<1, 1>>, <<1, 2>>, <<2, 2>>}

LifeCoords == {FromInt(c) : c \in -1 .. LifeMaxCoord}

LifeLower == {[i \in World |-> Zero]}

\* two local points, the second outside the reference cube
LifePoints == {[i \in Loc |-> Half], [i \in Loc |-> FromInt(i + 2)]}

LifeUpper == [World -> LifeCoords]

InitLife == InitWith(LifeInstantiations)

Next ==
  \/ \E o \in Objs :
       /\ CallerReady /\ ~geo[o].live
       /\ \E l \in LifeLower, u \in LifeUpper : Construct2(o, l, u)
  \/ \E o \in Objs :
       /\ CallerReady /\ ~geo[o].live
       /\ \E l \in LifeLower, u \in LifeUpper, m \in Masks : Construct3(o, l, u, m)
  \/ \E o \in Objs, src \in Objs : CopyConstruct(o, src)
  \/ \E o \in Objs, src \in Objs, out \in MissingReturn : Assign(o, src, out)
  \/ \E o \in Objs :
       /\ Ready(o)
       /\ \E p \in LifePoints, ub \in UBOutcomes : JacobianTransposed(o, p, ub)
  \/ \E o \in Objs :
       /\ Ready(o)
       /\ \E p \in LifePoints, ub \in UBOutcomes : JacobianInverseTransposed(o, p, ub)
  \/ \E o \in Objs : Volume(o)
  \/ Return

Spec == InitLife /\ [][Next]_vars

(***************************************************************************)
(* Vocabulary of the properties.                                           *)
(***************************************************************************)
\* the object the last call was made on
R == geo[ret.obj]

\* the data-model invariants of the box
BoxInvariant(g) ==
  \A i \in World : /\ Leq(g.lower_[i], g.upper_[i])
                   /\ (i \notin g.axes_ => g.upper_[i] = g.lower_[i])

\* dim == coorddim, or dim < coorddim with a mask of exactly dim set bits
MaskPre(g) == dim = coorddim \/ Count(g.axes_) = dim

\* the world axes the mapping scales: all of them when dim == coorddim
MappedAxes(g) == IF dim = coorddim THEN World ELSE g.axes_

NonDegenerate(g) == \A i \in MappedAxes(g) : g.lower_[i] # g.upper_[i]

\* the position j of the active axis i = a_j in ascending world-index order
Rank(g, i) == Cardinality({a \in MappedAxes(g) : a < i})

BlankLocal == [i \in Loc |-> NaN]

BlankWorld == [i \in World |-> NaN]

\* the reference-cube vertex with v[j] = bit j of k
Vertex(k) == [j \in Loc |-> IF Bit(k, j) THEN One ELSE Zero]

RECURSIVE WidthProduct(_, _)
WidthProduct(g, S) ==
  IF S = {} THEN One
  ELSE LET i == CHOOSE x \in S : TRUE
       IN  Mul(Sub(g.upper_[i], g.lower_[i]), WidthProduct(g, S \ {i}))

RoundTripLocalOfGlobal ==
  (ret.op = "global" /\ ret.arg \in RefCube)
    => VecEq(local(R, ret.val.result, BlankLocal).result, ret.arg)

RoundTripGlobalOfLocal ==
  (ret.op = "local" /\ OnBox(R, ret.arg))
    => VecEq(global(R, ret.val, BlankWorld).result, ret.arg)

(***************************************************************************)
(* C1 as stated: for every box satisfying the data-model invariants and    *)
(* every mask of exactly dim bits (or dim == coorddim),                    *)
(* local(global(p)) == p for p in the reference cube and                   *)
(* global(local(q)) == q for q on the box.                                 *)
(***************************************************************************)
C1_RoundTripEveryValidBox ==
  (ret.op \in {"global", "local"} /\ BoxInvariant(R) /\ MaskPre(R))
    => (RoundTripLocalOfGlobal /\ RoundTripGlobalOfLocal)

(***************************************************************************)
(* C1 amended: the round trip holds for every such box whose mapped axes   *)
(* all have upper[i] > lower[i]; a zero-width mapped axis makes local()    *)
(* divide by zero.                                                         *)
(***************************************************************************)
C1_RoundTrip ==
  (ret.op \in {"global", "local"} /\ BoxInvariant(R) /\ MaskPre(R) /\ NonDegenerate(R))
    => (RoundTripLocalOfGlobal /\ RoundTripGlobalOfLocal)

C1_Witness ==
  /\ ret.op = "local" /\ dim = 2 /\ coorddim = 3
  /\ BoxInvariant(R) /\ MaskPre(R) /\ NonDegenerate(R) /\ OnBox(R, ret.arg)
  /\ R.axes_ = {0, 2} /\ R.lower_[2] = One
  /\ ret.val[0] = Half /\ ret.val[1] = One

(***************************************************************************)
(* C2: for every mask of exactly dim bits (or dim == coorddim) and every   *)
(* k in [0, 2^dim), corner(k) == global(v) for the vertex v with           *)
(* v[j] = bit j of k: the j-th active axis in ascending order takes upper  *)
(* when bit j of k is set and lower otherwise, inactive axes take lower.   *)
(***************************************************************************)
C2_CornerIsGlobalOfVertex ==
  (ret.op = "corner" /\ MaskPre(R))
    => /\ ret.val = global(R, Vertex(ret.arg), BlankWorld).result
       /\ \A i \in World :
            ret.val[i] = IF i \in MappedAxes(R) /\ Bit(ret.arg, Rank(R, i))
                         THEN R.upper_[i] ELSE R.lower_[i]

C2_Witness ==
  /\ ret.op = "corner" /\ dim = 2 /\ coorddim = 3 /\ R.axes_ = {1, 2}
  /\ ret.arg = 2 /\ NonDegenerate(R)
  /\ ret.val[1] = R.lower_[1] /\ ret.val[2] = R.upper_[2]

(***************************************************************************)
(* C4: volume() is the product of upper[i] - lower[i] over the active axes *)
(* only (all axes when dim == coorddim), zero when one of them has zero    *)
(* width, and integrationElement(p) == volume() for every p, also outside  *)
(* the reference cube.                                                     *)
(***************************************************************************)
C4_Volume ==
  /\ ret.op = "volume" =>
       /\ ret.val = WidthProduct(R, MappedAxes(R))
       /\ ((\E i \in MappedAxes(R) : R.upper_[i] = R.lower_[i]) => ret.val = Zero)
  /\ ret.op = "integrationElement" =>
       /\ ret.val = volume(R)
       /\ ret.val = WidthProduct(R, MappedAxes(R))

C4_Witness ==
  /\ ret.op = "integrationElement" /\ dim = 2 /\ coorddim = 3
  /\ ret.arg \notin RefCube /\ ret.val = FromInt(4)

(***************************************************************************)
(* C5: for dim < coorddim every inactive coordinate of global(p) is the    *)
(* lower[i] the constructor was given, for every p and whatever upper[i]   *)
(* was given; the active axes consume local[0], local[1], ... in ascending *)
(* order of world index, each exactly once.                                *)
(***************************************************************************)
C5_GlobalEmbedding ==
  /\ (ret.op = "ctor3" /\ dim < coorddim) => R.lower_ = ret.arg[1]
  /\ (ret.op = "global" /\ dim < coorddim) =>
       /\ \A i \in World \ R.axes_ :
            ret.val.result[i] = R.lower_[i] /\ ret.val.reads[i] = -1
       /\ \A i \in R.axes_ :
            /\ ret.val.reads[i] = Rank(R, i)
            /\ Rank(R, i) < dim =>
                 ret.val.result[i] =
                   Add(R.lower_[i],
                       Mul(ret.arg[Rank(R, i)], Sub(R.upper_[i], R.lower_[i])))
       /\ \A j \in 0 .. (Count(R.axes_) - 1) :
            Cardinality({i \in World : ret.val.reads[i] = j}) = 1

C5_Witness ==
  /\ ret.op = "global" /\ dim = 2 /\ coorddim = 3 /\ R.axes_ = {0, 2}
  /\ ret.arg[0] = Half /\ ret.arg[1] = One
  /\ R.lower_[1] = FromInt(2) /\ R.lower_[0] = One /\ R.upper_[0] = FromInt(2)
  /\ ret.val.result = [i \in World |-> IF i = 0 THEN Norm(3, 2) ELSE FromInt(2)]

(***************************************************************************)
(* The Jacobians of the affine map, written out entry by entry.            *)
(***************************************************************************)
ExpectedJT(g) ==
  IF dim = coorddim
  THEN [j \in Loc |-> Sub(g.upper_[j], g.lower_[j])]
  ELSE [r \in Loc |-> [c \in World |->
          IF c \in g.axes_ /\ Rank(g, c) = r
          THEN Sub(g.upper_[c], g.lower_[c]) ELSE Zero]]

ExpectedJIT(g) ==
  IF dim = coorddim
  THEN [j \in Loc |-> Div(One, Sub(g.upper_[j], g.lower_[j]))]
  ELSE [r \in World |-> [c \in Loc |->
          IF r \in g.axes_ /\ Rank(g, r) = c
          THEN Div(One, Sub(g.upper_[r], g.lower_[r])) ELSE Zero]]

\* the entry of a returned inverse Jacobian that belongs to world axis i
InverseEntry(g, m, i) == IF dim = coorddim THEN m[i] ELSE m[i][Rank(g, i)]

(***************************************************************************)
(* C3: with a_0 < ... < a_{dim-1} the active axes (a_j = j when            *)
(* dim == coorddim), jacobianTransposed(p) has upper - lower of axis a_j   *)
(* at (j, a_j) and zero elsewhere; when every active width is nonzero,     *)
(* jacobianInverseTransposed(p) has its reciprocal at (a_j, j) and zero    *)
(* elsewhere, so that the product of corresponding entries is 1.           *)
(***************************************************************************)
C3_JacobianShape ==
  /\ (ret.op = "jacobianTransposed" /\ MaskPre(R)) => ret.val = ExpectedJT(R)
  /\ (ret.op = "jacobianInverseTransposed" /\ MaskPre(R) /\ NonDegenerate(R)) =>
       /\ ret.val = ExpectedJIT(R)
       /\ \A i \in MappedAxes(R) :
            Mul(Sub(R.upper_[i], R.lower_[i]), InverseEntry(R, ret.val, i)) = One

C3_Witness ==
  /\ ret.op = "jacobianInverseTransposed" /\ dim = 2 /\ coorddim = 3
  /\ R.axes_ = {0, 2} /\ R.lower_[0] = One /\ R.lower_[2] = Zero
  /\ ret.val[0][0] = One /\ ret.val[2][1] = Half /\ ret.val[2][0] = Zero
  /\ R.jacobianTransposed_[1][2] = FromInt(2)

(***************************************************************************)
(* C6 as stated: in every reachable state every object has                 *)
(* upper[i] >= lower[i] on every axis and upper[i] == lower[i] on every    *)
(* axis the mask does not select.                                          *)
(***************************************************************************)
C6_BoxInvariantAlways == \A o \in Objs : geo[o].live => BoxInvariant(geo[o])

(***************************************************************************)
(* C6 amended: upper[i] == lower[i] holds on every axis the mask does not  *)
(* select, in every reachable state; upper[i] >= lower[i] is not checked   *)
(* by the constructors: a constructed object has it on every axis exactly  *)
(* when the arguments had it on the axes the mask selects.                 *)
(***************************************************************************)
C6_InactiveAxesCollapsed ==
  /\ \A o \in Objs : geo[o].live =>
       \A i \in World \ geo[o].axes_ : geo[o].upper_[i] = geo[o].lower_[i]
  /\ ret.op \in {"ctor2", "ctor3"} =>
       ((\A i \in R.axes_ : Leq(ret.arg[1][i], ret.arg[2][i]))
          <=> (\A i \in World : Leq(R.lower_[i], R.upper_[i])))

C6_Witness ==
  /\ ret.op = "ctor3" /\ coorddim = 2 /\ dim = 1 /\ R.axes_ = {0}
  /\ ret.arg[2][1] = FromInt(-1) /\ R.upper_[1] = Zero /\ R.upper_[0] = One
  /\ geo["a"].live /\ geo["b"].live /\ geo["a"] # geo["b"]

\* the object with its scratch members as the constructors leave them
Fresh(g) ==
  [g EXCEPT !.jacobianTransposed_ = ZeroJT, !.jacobianInverseTransposed_ = ZeroJIT]

\* the value just returned is the one a freshly constructed object with the same
\* lower, upper and axis mask returns
HistoryIndependent ==
  /\ ret.op = "jacobianTransposed" =>
       \E ub \in {"flat", "dropped"} : ret.val = jacobianTransposed(Fresh(R), ub).jt
  /\ ret.op = "jacobianInverseTransposed" =>
       \E ub \in {"flat", "dropped"} :
          ret.val = jacobianInverseTransposed(Fresh(R), ub).jit

(***************************************************************************)
(* C7 as stated: after any sequence of constructions, copies, assignments  *)
(* and earlier Jacobian queries the Jacobians returned depend only on the  *)
(* current lower, upper and axis mask.                                     *)
(***************************************************************************)
C7_JacobianHistoryIndependent ==
  ret.op \in {"jacobianTransposed", "jacobianInverseTransposed"} => HistoryIndependent

(***************************************************************************)
(* C7 amended: the same, for every instance whose axis mask has at most    *)
(* dim set bits (or dim == coorddim).  With more bits set                  *)
(* jacobianTransposed stores behind its matrix, into the scratch of        *)
(* jacobianInverseTransposed.                                              *)
(***************************************************************************)
C7_JacobianHistoryIndependentInBounds ==
  (/\ ret.op \in {"jacobianTransposed", "jacobianInverseTransposed"}
   /\ (dim = coorddim \/ Count(R.axes_) <= dim))
    => /\ HistoryIndependent
       /\ (ret.op = "jacobianTransposed" /\ MaskPre(R)) => ret.val = ExpectedJT(R)

C7_Witness ==
  /\ ret.op = "jacobianInverseTransposed" /\ ret.obj = "a"
  /\ dim = 1 /\ coorddim = 2 /\ R.axes_ = {1}
  /\ geo["b"].live /\ geo["a"] = geo["b"]
  /\ R.jacobianTransposed_[0][1] = One /\ ret.val[1][0] = One

(***************************************************************************)
(* C8 as stated: the general constructor fails whenever the mask has a     *)
(* population count other than dim, so every queryable geometry has        *)
(* exactly dim set bits in its axis mask.                                  *)
(***************************************************************************)
C8_MaskAlwaysDimBits ==
  /\ \A o \in Objs : geo[o].live => Count(geo[o].axes_) = dim
  /\ ret.op = "ctor3" => Count(ret.arg[3]) = dim

(***************************************************************************)
(* C8 amended: in a build with assertions enabled the general constructor  *)
(* stops the program whenever the mask has a population count other than   *)
(* dim, so every object it leaves has exactly dim set bits; the            *)
(* two-argument constructor sets all coorddim bits; with NDEBUG the mask   *)
(* is not checked.                                                         *)
(***************************************************************************)
C8_MaskCheckedWhenAsserting ==
  ~ndebug =>
    /\ ret.op = "ctor3" => (Count(ret.arg[3]) = dim /\ R.axes_ = ret.arg[3])
    /\ (ret.op = "stopped" /\ ret.val = "ctor3") =>
         (Count(ret.arg[3]) # dim /\ ~geo[ret.obj].live)
    /\ \A o \in Objs : geo[o].live =>
         (Count(geo[o].axes_) = dim \/ geo[o].axes_ = World)

C8_Witness ==
  /\ ~ndebug /\ halted /\ ret.op = "stopped" /\ ret.val = "ctor3"
  /\ dim = 1 /\ coorddim = 2 /\ ret.arg[3] = {0, 1}
  /\ ret.obj = "b" /\ geo["a"].live

SameMembers(x, y) ==
  /\ x.lower_ = y.lower_ /\ x.upper_ = y.upper_ /\ x.axes_ = y.axes_
  /\ x.jacobianTransposed_ = y.jacobianTransposed_
  /\ x.jacobianInverseTransposed_ = y.jacobianInverseTransposed_

BoxOf(g) == IF g.live THEN <<g.lower_, g.upper_, g.axes_>> ELSE <<>>

(***************************************************************************)
(* C10: after a = b the five members of a equal those of b, b is           *)
(* unchanged and the program goes on; a = a leaves a unchanged; every      *)
(* operation other than a constructor or an assignment leaves lower, upper *)
(* and the axis mask of every object unchanged.                            *)
(***************************************************************************)
C10_WholeObjectAssignment ==
  [][/\ ret'.op = "assign" =>
          /\ ~halted'
          /\ SameMembers(geo'[ret'.obj], geo[ret'.arg])
          /\ geo'[ret'.arg] = geo[ret'.arg]
     /\ ret'.op \notin {"assign", "ctor2", "ctor3", "copy"} =>
          \A o \in Objs : BoxOf(geo'[o]) = BoxOf(geo[o])]_<<geo, halted, ret.op>>

(***************************************************************************)
(* Threads calling the const member functions of one shared instance.      *)
(* A call advances one loop iteration at a time; rd and wr collect the     *)
(* memory locations of the instance the call has read and written.  The    *)
(* instance has a mask of exactly dim bits, so every index stays inside    *)
(* its array.  Racing stores of the Jacobian queries all store the value   *)
(* computed from lower_ and upper_, which no call writes.                  *)
(***************************************************************************)
NonJacobianQueries ==
  {"global", "local", "corner", "volume", "center", "corners", "type", "affine",
   "integrationElement"}

JacobianQueries == {"jacobianTransposed", "jacobianInverseTransposed"}

ConcInstantiations == {<<1, 1>>, <<1, 2>>, <<2, 2>>}

\* a memory location of the instance: a member and an offset into it
Cell(field, off) == <<field, off>>

BoxCells(i) == {Cell("lower_", i), Cell("upper_", i)}

\* iterations of the loop of a member function
Trips(op) == IF op \in {"type", "corners", "affine"} THEN 0 ELSE coorddim

\* the fast path treats every axis as active; the slow path tests axes_[i]
Active(g, i) == dim = coorddim \/ i \in g.axes_

MaskRead == IF dim = coorddim THEN {} ELSE {Cell("axes_", 0)}

\* the locations iteration i of the call reads
Reads(g, op, k, i, lc) ==
  CASE op = "center" -> BoxCells(i)
    [] op = "global" ->
         MaskRead \cup {Cell("lower_", i)}
           \cup (IF Active(g, i) THEN {Cell("upper_", i)} ELSE {})
    [] op = "corner" ->
         MaskRead \cup {IF Active(g, i) /\ Bit(k, lc)
                        THEN Cell("upper_", i) ELSE Cell("lower_", i)}
    [] OTHER -> MaskRead \cup (IF Active(g, i) THEN BoxCells(i) ELSE {})

\* a geometry whose every query refreshes the cached Jacobian
WritesCaching(g, op, i, lc) ==
  IF Active(g, i)
  THEN {Cell("jacobianTransposed_", IF dim = coorddim THEN i ELSE lc * coorddim + i)}
  ELSE {}

\* the locations iteration i of the call writes
Writes(g, op, i, lc) ==
  CASE op = "jacobianTransposed" /\ Active(g, i) ->
         {Cell("jacobianTransposed_", IF dim = coorddim THEN i ELSE lc * coorddim + i)}
    [] op = "jacobianInverseTransposed" /\ Active(g, i) ->
         {Cell("jacobianInverseTransposed_", IF dim = coorddim THEN i ELSE i * dim + lc)}
    [] OTHER -> {}

\* the instance after the store of iteration i
Store(g, op, i, lc) ==
  IF Writes(g, op, i, lc) = {} THEN g
  ELSE IF op = "jacobianInverseTransposed"
       THEN [g EXCEPT !.jacobianInverseTransposed_ =
               IF dim = coorddim THEN [@ EXCEPT ![i] = InvWidth(g, i)]
               ELSE [@ EXCEPT ![i][lc] = InvWidth(g, i)]]
       ELSE [g EXCEPT !.jacobianTransposed_ =
               IF dim = coorddim THEN [@ EXCEPT ![i] = Width(g, i)]
               ELSE [@ EXCEPT ![lc][i] = Width(g, i)]]

InitConc ==
  /\ \E inst \in ConcInstantiations : dim = inst[1] /\ coorddim = inst[2]
  /\ ndebug = FALSE
  /\ \E axes \in Masks :
       /\ AssertHolds(axes)
       /\ geo = [o \in Objs |->
                   IF o = "a"
                   THEN Ctor3([i \in World |-> Zero], [i \in World |-> FromInt(i + 1)], axes)
                   ELSE NoGeo]
  /\ ret = Result("none", "a", 0, 0)
  /\ halted = FALSE
  /\ thr = [t \in Threads |-> Idle]

Call(t, op, k) ==
  /\ ~halted /\ geo["a"].live /\ thr[t].pc = "idle"
  /\ thr' = [thr EXCEPT ![t] = [pc |-> "run", op |-> op, k |-> k, i |-> 0, lc |-> 0,
                                rd |-> {}, wr |-> {}]]
  /\ UNCHANGED <<dim, coorddim, ndebug, geo, ret, halted>>

Step(t) ==
  LET c == thr[t]
      g == geo["a"]
  IN /\ c.pc = "run" /\ c.i < Trips(c.op)
     /\ geo' = [geo EXCEPT !["a"] = Store(g, c.op, c.i, c.lc)]
     /\ thr' = [thr EXCEPT ![t] =
                  [c EXCEPT !.i = c.i + 1,
                            !.lc = IF Active(g, c.i) THEN c.lc + 1 ELSE c.lc,
                            !.rd = c.rd \cup Reads(g, c.op, c.k, c.i, c.lc),
                            !.wr = c.wr \cup Writes(g, c.op, c.i, c.lc)]]
     /\ UNCHANGED <<dim, coorddim, ndebug, ret, halted>>

ThreadReturn(t) ==
  /\ thr[t].pc = "run" /\ thr[t].i = Trips(thr[t].op)
  /\ thr' = [thr EXCEPT ![t] = Idle]
  /\ UNCHANGED <<dim, coorddim, ndebug, geo, ret, halted>>

NextConc ==
  \E t \in Threads :
    \/ \E op \in NonJacobianQueries \cup JacobianQueries :
         \E k \in (IF op = "corner" THEN 0 .. (Pow2(dim) - 1) ELSE {0}) : Call(t, op, k)
    \/ Step(t)
    \/ ThreadReturn(t)

SpecConc == InitConc /\ [][NextConc]_vars

Running(t) == thr[t].pc = "run"

\* two calls in flight, one of which has written what the other has read or written
Conflict(t, u) ==
  /\ t # u /\ Running(t) /\ Running(u)
  /\ \/ thr[t].wr \cap (thr[u].rd \cup thr[u].wr) # {}
     \/ thr[u].wr \cap thr[t].rd # {}

(***************************************************************************)
(* C9: on one shared instance a call of global, local, corner, volume,     *)
(* center, corners, type, affine or integrationElement writes no member    *)
(* of the instance, so no two of them conflict in any interleaving; no     *)
(* call writes lower_, upper_ or axes_; the Jacobian queries are the only  *)
(* writers, and two concurrent calls of the same Jacobian query write the  *)
(* same entries of the same scratch matrix.                                *)
(***************************************************************************)
C9_OnlyJacobianQueriesWrite ==
  /\ \A t \in Threads :
       Running(t) =>
         /\ thr[t].op \in NonJacobianQueries => thr[t].wr = {}
         /\ \A c \in thr[t].wr :
              c[1] \in {"jacobianTransposed_", "jacobianInverseTransposed_"}
  /\ \A t, u \in Threads :
       Conflict(t, u) => (thr[t].op \in JacobianQueries \/ thr[u].op \in JacobianQueries)
  /\ \A t, u \in Threads :
       (/\ t # u /\ Running(t) /\ Running(u)
        /\ thr[t].op \in JacobianQueries /\ thr[u].op = thr[t].op
        /\ thr[t].i = Trips(thr[t].op) /\ thr[u].i = Trips(thr[u].op))
         => (thr[t].wr = thr[u].wr /\ thr[t].wr # {})
  /\ geo["a"].lower_ = [i \in World |-> Zero]
  /\ \A i \in World :
       geo["a"].upper_[i] = IF Active(geo["a"], i) THEN FromInt(i + 1) ELSE Zero

C9_Witness ==
  \E t, u \in Threads :
    /\ Conflict(t, u) /\ dim < coorddim
    /\ thr[t].op = "jacobianTransposed" /\ thr[u].op = "jacobianTransposed"
    /\ thr[t].wr \cap thr[u].wr # {}
    /\ thr[t].i < Trips(thr[t].op)

====
